---- MODULE Spec2Model ----
(***************************************************************************)
(* A model of spotdl/utils/search.py: query classification and collection  *)
(* expansion (get_simple_songs), the refresh of one record (reinit_song),  *)
(* the thread-pool refresh stage (parse_query) and the library scan        *)
(* (gather_known_songs).                                                   *)
(***************************************************************************)
EXTENDS Integers, Sequences, FiniteSets, Bags, TLC

VARIABLES
    \* get_simple_songs
    query,      \* the list of request strings handed to get_simple_songs
    qi,         \* index of the next request of the first loop
    songs,      \* the local list `songs`
    lists,      \* the local list `lists`
    li,         \* index of the current song_list of the second loop
    mi,         \* index of the next member of the current song_list
    catalog,    \* what the catalog answers for each collection class
    logged,     \* what logger.info reported, one entry per song_list
    taken,      \* the branch of the first loop each handled request took
    error,      \* the message of the exception raised, "" while none is
    spc,        \* position in get_simple_songs
    \* reinit_song
    song,       \* the argument `song`
    new_data,   \* Song.from_url(data["url"]).json, or the error it raises
    playlist_numbering,     \* the argument `playlist_numbering`
    position,   \* the 0-based place of `song` in its song list, -1 if none
    reinit,     \* what reinit_song returned or raised
    rpc,        \* position in reinit_song
    \* parse_query
    threads,    \* the argument `threads`: max_workers of the executor
    tasks,      \* the songs handed to executor.map, in order
    fs,         \* the state of each submitted future
    outcome,    \* what each finished future holds: a Song or an exception
    worker,     \* what each worker thread is running, 0 when idle
    next_item,  \* the head of the executor's work queue
    yielded,    \* how many futures the result iterator has popped
    results,    \* the local list `results`
    raising,    \* the exception leaving the `with` block, "" if none
    returned,   \* the list parse_query returned, None while it has not
    runs,       \* for each task, the workers that executed it
    overtaken,  \* whether a task finished before an earlier one had
    ppc,        \* position in parse_query
    \* gather_known_songs
    paths,      \* the files the glob enumerates, in order
    pi,         \* index of the next path of the loop
    known_songs,    \* the dictionary being built
    gpc         \* position in gather_known_songs

simple_vars ==
    <<query, qi, songs, lists, li, mi, catalog, logged, taken, error, spc>>

reinit_vars == <<song, new_data, playlist_numbering, position, reinit, rpc>>

pool_vars ==
    <<threads, tasks, fs, outcome, worker, next_item, yielded, results,
      raising, returned, runs, overtaken, ppc>>

scan_vars == <<paths, pi, known_songs, gpc>>

vars == <<simple_vars, reinit_vars, pool_vars, scan_vars>>

\* what each function leaves alone: the variables of the others
not_simple == <<reinit_vars, pool_vars, scan_vars>>
not_reinit == <<simple_vars, pool_vars, scan_vars>>
not_pool == <<simple_vars, reinit_vars, scan_vars>>
not_scan == <<simple_vars, reinit_vars, pool_vars>>

----------------------------------------------------------------------------
(* Bounds *)

\* total number of '|'-free parts over all requests of a query
MaxLen == 3
\* number of collection requests of a query in the expansion check
MaxLists == 2
\* number of members of a collection
MaxMembers == 2
\* number of songs handed to the refresh stage
MaxSongs == 3
\* the largest `threads`
MaxThreads == 2
\* number of files under the output directory
MaxFiles == 3

----------------------------------------------------------------------------
(* Strings.  A Python str is modelled as the non-empty sequence of its     *)
(* '|'-free parts, so "a|b" is <<"a", "b">> and request.split("|") is the  *)
(* sequence itself.  None is the empty sequence, which is no string.       *)

None == << >>

Str(p) == <<p>>

\* the '|'-free pieces requests are built from
Parts ==
    { "https://youtube.com/watch?v=X",
      "https://youtu.be/X",
      "https://open.spotify.com/track/Y",
      "https://open.spotify.com/playlist/P",
      "https://open.spotify.com/album/A",
      "https://open.spotify.com/artist/R",
      "album:name",
      "saved",
      "songs.spotdl",
      "some song" }

\* the substrings search.py tests for that occur in a part
Markers(p) ==
    CASE p = "https://youtube.com/watch?v=X" ->
            {"youtube.com/watch?v=", "youtube"}
      [] p = "https://youtu.be/X" ->
            {"youtu.be/", "youtu.be"}
      [] p = "https://open.spotify.com/track/Y" ->
            {"open.spotify.com", "spotify", "track"}
      [] p = "https://open.spotify.com/playlist/P" ->
            {"open.spotify.com", "spotify", "playlist"}
      [] p = "https://open.spotify.com/album/A" ->
            {"open.spotify.com", "spotify", "album"}
      [] p = "https://open.spotify.com/artist/R" ->
            {"open.spotify.com", "spotify", "artist"}
      [] p = "album:name" -> {"album:", "album"}
      [] OTHER -> {}

\* `marker in s` for a marker without '|': it lies inside one part
Contains(s, marker) == \E i \in 1..Len(s) : marker \in Markers(s[i])

\* `"|" in s`
HasBar(s) == Len(s) > 1

\* s.endswith(".spotdl")
EndsWithSpotdl(s) == s[Len(s)] = "songs.spotdl"

\* s.split("|"): the parts, each a string of its own
Split(s) == [i \in 1..Len(s) |-> Str(s[i])]

RECURSIVE Grouped(_, _, _, _)
\* the requests a list of parts makes up, a new request starting at every
\* part i with starts[i]: the requests made of the parts before i are in
\* done
Grouped(parts, starts, i, done) ==
    IF i > Len(parts) THEN done
    ELSE IF done = << >> \/ starts[i]
    THEN Grouped(parts, starts, i + 1, Append(done, <<parts[i]>>))
    ELSE Grouped(parts, starts, i + 1,
                 [done EXCEPT ![Len(done)] = Append(@, parts[i])])

\* a query: some requests, each some parts joined by '|'
Query(parts, starts) == Grouped(parts, starts, 1, << >>)

----------------------------------------------------------------------------
(* Song and SongList values *)

\* Song.from_missing_data(url=..., download_url=..., song_list=...)
from_missing_data(url, download_url, song_list) ==
    [via |-> "from_missing_data", url |-> url,
     download_url |-> download_url, song_list |-> song_list]

\* Song.from_url(url=request)
from_url(url) ==
    [via |-> "from_url", url |-> url, download_url |-> None, song_list |-> None]

\* Song.from_search_term(request)
from_search_term(term) ==
    [via |-> "from_search_term", url |-> term, download_url |-> None,
     song_list |-> None]

\* Song.from_dict(track)
from_dict(track) ==
    [via |-> "from_dict", url |-> track, download_url |-> None,
     song_list |-> None]

\* the track objects json.load reads from a save file
SaveFileTracks == << Str("https://open.spotify.com/track/S1"),
                     Str("https://open.spotify.com/track/S2") >>

\* the SongList classes
Classes == {"Playlist", "Album", "Artist", "Saved"}

\* an optional object: None, or the one-element sequence holding it
Some(x) == <<x>>

\* a collection a member was already attached to before the expansion
NestedList ==
    [name |-> Str("nested album"), class |-> "Album", songs |-> << >>,
     author_name |-> None, cover_url |-> None]

\* a member of song_list.songs: its url and the song_list it already carries
MemberUrls == { Str("https://open.spotify.com/track/M1"),
                Str("https://open.spotify.com/track/M2") }

Members == [url : MemberUrls, song_list : {None, Some(NestedList)}]

\* song_list.urls: the urls of song_list.songs, in order
Urls(song_list) == [i \in 1..Len(song_list.songs) |-> song_list.songs[i].url]

\* the SongList object a class builds for a request
SongListOf(class, request, cat) ==
    [name |-> request, class |-> class, songs |-> cat[class],
     author_name |-> IF class = "Playlist" THEN Str("list author") ELSE None,
     cover_url |-> IF class = "Playlist" THEN Str("list cover") ELSE None]

----------------------------------------------------------------------------
(* get_simple_songs, first loop: one request *)

\* the condition of the first branch (lines 95-101); `and` binds tighter
\* than `or`
IsPaired(request) ==
    \/ Contains(request, "youtube.com/watch?v=")
    \/ /\ Contains(request, "youtu.be/")
       /\ Contains(request, "open.spotify.com")
       /\ Contains(request, "track")
       /\ HasBar(request)

\* the condition that raises QueryError (lines 103-108)
BadPair(split_urls) ==
    \/ Len(split_urls) <= 1
    \/ /\ ~Contains(split_urls[1], "youtube")
       /\ ~Contains(split_urls[1], "youtu.be")
    \/ ~Contains(split_urls[2], "spotify")

QueryError == "Incorrect format used, please use \"YouTubeURL|SpotifyURL\""

\* what the body of the first loop does with one request: raise, append
\* songs, or append a song list
Classify(request, cat) ==
    IF IsPaired(request) THEN
        LET split_urls == Split(request) IN
        IF BadPair(split_urls)
        THEN [do |-> "raise", branch |-> "paired", error |-> QueryError]
        ELSE [do |-> "songs", branch |-> "paired",
              songs |-> << from_missing_data(split_urls[2], split_urls[1], None) >>]
    ELSE IF Contains(request, "open.spotify.com") /\ Contains(request, "track")
    THEN [do |-> "songs", branch |-> "track", songs |-> << from_url(request) >>]
    ELSE IF Contains(request, "open.spotify.com") /\ Contains(request, "playlist")
    THEN [do |-> "list", branch |-> "playlist",
          list |-> SongListOf("Playlist", request, cat)]
    ELSE IF Contains(request, "open.spotify.com") /\ Contains(request, "album")
    THEN [do |-> "list", branch |-> "album",
          list |-> SongListOf("Album", request, cat)]
    ELSE IF Contains(request, "open.spotify.com") /\ Contains(request, "artist")
    THEN [do |-> "list", branch |-> "artist",
          list |-> SongListOf("Artist", request, cat)]
    ELSE IF Contains(request, "album:")
    THEN [do |-> "list", branch |-> "album:",
          list |-> SongListOf("Album", request, cat)]
    ELSE IF request = Str("saved")
    THEN [do |-> "list", branch |-> "saved",
          list |-> SongListOf("Saved", request, cat)]
    ELSE IF EndsWithSpotdl(request)
    THEN [do |-> "songs", branch |-> ".spotdl",
          songs |-> [i \in 1..Len(SaveFileTracks) |-> from_dict(SaveFileTracks[i])]]
    ELSE [do |-> "songs", branch |-> "search",
          songs |-> << from_search_term(request) >>]

\* ExpandSong without the test of line 145: the current song list replaces
\* whatever the member carried
ExpandSongAlwaysAttach(member, song_list) ==
    from_missing_data(member.url, None, Some(song_list))

\* the record the second loop appends for one member (lines 145-150)
ExpandSong(member, song_list) ==
    IF member.song_list # None
    THEN from_missing_data(member.url, None, member.song_list)
    ELSE from_missing_data(member.url, None, Some(song_list))

----------------------------------------------------------------------------
(* get_simple_songs as a state machine *)

\* reinit_song is not running
ReinitParked ==
    /\ song = None
    /\ new_data = None
    /\ playlist_numbering = FALSE
    /\ position = -1
    /\ reinit = None
    /\ rpc = "idle"

\* gather_known_songs is not running
ScanParked ==
    /\ paths = << >>
    /\ pi = 1
    /\ known_songs = << >>
    /\ gpc = "idle"

\* parse_query is not running
PoolParked ==
    /\ threads = 1
    /\ tasks = << >>
    /\ fs = << >>
    /\ outcome = << >>
    /\ worker = << >>
    /\ next_item = 1
    /\ yielded = 0
    /\ results = << >>
    /\ raising = ""
    /\ returned = None
    /\ runs = << >>
    /\ overtaken = FALSE
    /\ ppc = "idle"

\* lines 94-134: the body of `for request in query`
ClassifyRequest ==
    /\ spc = "classify"
    /\ qi <= Len(query)
    /\ LET c == Classify(query[qi], catalog) IN
        /\ spc' = IF c.do = "raise" THEN "raised" ELSE "classify"
        /\ songs' = IF c.do = "songs" THEN songs \o c.songs ELSE songs
        /\ lists' = IF c.do = "list" THEN Append(lists, c.list) ELSE lists
        /\ taken' = Append(taken, c.branch)
        /\ error' = IF c.do = "raise" THEN c.error ELSE error
        /\ qi' = qi + 1
    /\ UNCHANGED <<query, li, mi, catalog, logged>>
    /\ UNCHANGED not_simple

\* the first loop is exhausted: on to `for song_list in lists`
EndClassify ==
    /\ spc = "classify"
    /\ qi > Len(query)
    /\ spc' = "lists"
    /\ li' = 1
    /\ UNCHANGED <<query, qi, songs, lists, mi, catalog, logged, taken, error>>
    /\ UNCHANGED not_simple

\* lines 136-142: the next song_list and its logger.info
LogSongList ==
    /\ spc = "lists"
    /\ li <= Len(lists)
    /\ logged' = Append(logged, [count |-> Len(Urls(lists[li])), at |-> Len(songs)])
    /\ mi' = 1
    /\ spc' = "members"
    /\ UNCHANGED <<query, qi, songs, lists, li, catalog, taken, error>>
    /\ UNCHANGED not_simple

\* lines 144-150: the body of `for song in song_list.songs`
ExpandMember ==
    /\ spc = "members"
    /\ mi <= Len(lists[li].songs)
    /\ songs' = Append(songs, ExpandSong(lists[li].songs[mi], lists[li]))
    /\ mi' = mi + 1
    /\ UNCHANGED <<query, qi, lists, li, catalog, logged, taken, error, spc>>
    /\ UNCHANGED not_simple

\* the members of the current song_list are exhausted
NextSongList ==
    /\ spc = "members"
    /\ mi > Len(lists[li].songs)
    /\ li' = li + 1
    /\ spc' = "lists"
    /\ UNCHANGED <<query, qi, songs, lists, mi, catalog, logged, taken, error>>
    /\ UNCHANGED not_simple

\* line 152
ReturnSongs ==
    /\ spc = "lists"
    /\ li > Len(lists)
    /\ spc' = "returned"
    /\ UNCHANGED <<query, qi, songs, lists, li, mi, catalog, logged, taken, error>>
    /\ UNCHANGED not_simple

\* the catalog of the classification runs
FixedCatalog ==
    [c \in Classes |->
        CASE c = "Playlist" ->
                << [url |-> Str("https://open.spotify.com/track/M1"), song_list |-> None],
                   [url |-> Str("https://open.spotify.com/track/M2"),
                    song_list |-> Some(NestedList)] >>
          [] c = "Album" ->
                << [url |-> Str("https://open.spotify.com/track/M1"), song_list |-> None] >>
          [] c = "Artist" -> << >>
          [] OTHER ->
                << [url |-> Str("https://open.spotify.com/track/M2"), song_list |-> None] >>]

\* requests that name a collection
CollectionRequests ==
    { Str(p) : p \in { "https://open.spotify.com/playlist/P",
                       "https://open.spotify.com/album/A",
                       "https://open.spotify.com/artist/R",
                       "album:name", "saved" } }

\* get_simple_songs is not running
SimpleParked ==
    /\ query = << >>
    /\ catalog = FixedCatalog
    /\ qi = 1
    /\ songs = << >>
    /\ lists = << >>
    /\ li = 0
    /\ mi = 0
    /\ logged = << >>
    /\ taken = << >>
    /\ error = ""
    /\ spc = "idle"

\* any query with the fixed catalog, or collection requests with any
\* membership
SimpleStart ==
    /\ \/ /\ \E n \in 0..MaxLen :
                \E parts \in [1..n -> Parts], starts \in [2..n -> BOOLEAN] :
                    query = Query(parts, starts)
          /\ catalog = FixedCatalog
       \/ /\ \E n \in 0..MaxLists : query \in [1..n -> CollectionRequests]
          /\ \E n \in 0..MaxMembers :
                \E m \in [1..n -> Members] : catalog = [c \in Classes |-> m]
    /\ qi = 1
    /\ songs = << >>
    /\ lists = << >>
    /\ li = 0
    /\ mi = 0
    /\ logged = << >>
    /\ taken = << >>
    /\ error = ""
    /\ spc = "classify"

SimpleInit == SimpleStart /\ ReinitParked /\ PoolParked /\ ScanParked

SimpleNext ==
    \/ ClassifyRequest
    \/ EndClassify
    \/ LogSongList
    \/ ExpandMember
    \/ NextSongList
    \/ ReturnSongs

SpecSimple == SimpleInit /\ [][SimpleNext]_vars

----------------------------------------------------------------------------
(* reinit_song *)

\* the fields of a Song this model follows
Fields ==
    { "url", "name", "download_url", "track_number", "tracks_count",
      "album_name", "album_artist", "cover_url", "disc_number", "disc_count",
      "list_position", "song_list" }

\* data.update((k, v) for k, v in new_data.items() if v is not None), with
\* every None of new_data written over data as well
UpdateWithNones(data, fresh) == [k \in Fields |-> fresh[k]]

\* line 196: data.update((k, v) for k, v in new_data.items() if v is not None)
Update(data, fresh) ==
    [k \in Fields |-> IF fresh[k] # None THEN fresh[k] ELSE data[k]]

\* list.index(x): the 0-based place of the first x, -1 standing for the
\* ValueError of an absent x
RECURSIVE IndexFrom(_, _, _)
IndexFrom(urls, x, i) ==
    IF i > Len(urls) THEN -1
    ELSE IF urls[i] = x THEN i - 1
    ELSE IndexFrom(urls, x, i + 1)

Index(urls, x) == IndexFrom(urls, x, 1)

\* lines 194-215: reinit_song(song, playlist_numbering), fresh being what
\* Song.from_url(data["url"]) answers: the json of a Song, or None when the
\* lookup raises
reinit_song(s, fresh, numbering) ==
    IF fresh = None THEN [raised |-> TRUE, error |-> "LookupError"]
    ELSE
    LET data == Update(s, fresh[1]) IN
    IF data.song_list # None /\ s.song_list # None THEN
        LET song_list == [data.song_list[1] EXCEPT !.class = s.song_list[1].class]
            list_position == Index(Urls(song_list), s.url)
            placed == [data EXCEPT !.song_list = Some(song_list),
                                   !.list_position = Some(list_position)]
            numbered == [placed EXCEPT
                            !.track_number = Some(list_position + 1),
                            !.tracks_count = Some(Len(Urls(song_list))),
                            !.album_name = song_list.name,
                            !.disc_number = Some(1),
                            !.disc_count = Some(1)]
            playlist == [numbered EXCEPT
                            !.album_artist = song_list.author_name,
                            !.cover_url = song_list.cover_url]
        IN  IF list_position = -1
            THEN [raised |-> TRUE, error |-> "ValueError"]
            ELSE IF ~numbering THEN [raised |-> FALSE, song |-> placed]
            ELSE IF song_list.class = "Playlist"
            THEN [raised |-> FALSE, song |-> playlist]
            ELSE [raised |-> FALSE, song |-> numbered]
    ELSE [raised |-> FALSE, song |-> data]

\* a SongList whose members have the given urls
ListOfUrls(class, urls) ==
    [name |-> Str("my list"), class |-> class,
     songs |-> [i \in 1..Len(urls) |-> [url |-> urls[i], song_list |-> None]],
     author_name |-> IF class = "Playlist" THEN Str("list author") ELSE None,
     cover_url |-> IF class = "Playlist" THEN Str("list cover") ELSE None]

\* the placeholder get_simple_songs builds: only url, download_url and
\* song_list may be set
Placeholder(url, download_url, song_list) ==
    [k \in Fields |->
        CASE k = "url" -> url
          [] k = "download_url" -> download_url
          [] k = "song_list" -> song_list
          [] OTHER -> None]

\* a Song read back from a save file: every field set
Populated(url, song_list) ==
    [k \in Fields |->
        CASE k = "url" -> url
          [] k = "song_list" -> song_list
          [] k \in {"track_number", "tracks_count", "disc_number", "disc_count"}
                -> Some(7)
          [] k = "list_position" -> IF song_list = None THEN None ELSE Some(5)
          [] OTHER -> Str("old " \o k)]

\* the songs reinit_song is given, for a song list (or none) and a url
SongsFor(url, song_list) ==
    { Placeholder(url, None, song_list),
      Placeholder(url, Str("https://youtube.com/watch?v=X"), song_list),
      Populated(url, song_list) }

\* the fields the catalog may leave empty
OptionalFresh ==
    { "name", "download_url", "track_number", "album_name", "album_artist",
      "cover_url", "disc_number" }

\* what Song.from_url answers: url and the counts always set, list_position
\* and song_list never, any of the optional fields empty
FreshData ==
    { [k \in Fields |->
        CASE k \in {"list_position", "song_list"} -> None
          [] k \in empty -> None
          [] k \in {"track_number", "tracks_count", "disc_number", "disc_count"}
                -> Some(3)
          [] OTHER -> Str("new " \o k)] : empty \in SUBSET OptionalFresh }

\* a url that is in no song list
StaleUrl == Str("https://open.spotify.com/track/gone")

\* reinit_song is called
ReinitStart ==
    /\ \/ \E url \in MemberUrls :
            /\ song \in SongsFor(url, None)
            /\ position = -1
       \/ \E n \in 1..MaxMembers :
          \E urls \in [1..n -> MemberUrls], class \in {"Playlist", "Album"} :
            \/ \E i \in 1..Len(urls) :
                /\ song \in SongsFor(urls[i], Some(ListOfUrls(class, urls)))
                /\ position = i - 1
            \/ /\ song \in SongsFor(StaleUrl, Some(ListOfUrls(class, urls)))
               /\ position = -1
    /\ new_data \in { None } \cup { Some(f) : f \in FreshData }
    /\ playlist_numbering \in BOOLEAN
    /\ reinit = None
    /\ rpc = "call"

\* lines 194-215
Reinit ==
    /\ rpc = "call"
    /\ reinit' = Some(reinit_song(song, new_data, playlist_numbering))
    /\ rpc' = "done"
    /\ UNCHANGED <<song, new_data, playlist_numbering, position>>
    /\ UNCHANGED not_reinit

ReinitInit == ReinitStart /\ SimpleParked /\ PoolParked /\ ScanParked

ReinitNext == Reinit

SpecReinit == ReinitInit /\ [][ReinitNext]_vars

----------------------------------------------------------------------------
(* parse_query: ThreadPoolExecutor(max_workers=threads) and executor.map *)

\* a url the catalog does not know: Song.from_url raises for it
UnknownUrl == Str("https://open.spotify.com/track/unknown")

\* the deterministic catalog of the refresh stage: Song.from_url(url).json
CatalogData(url) ==
    IF url = UnknownUrl THEN None
    ELSE Some([k \in Fields |->
            CASE k \in {"list_position", "song_list", "download_url"} -> None
              [] k = "url" -> url
              [] k \in {"track_number", "tracks_count", "disc_number", "disc_count"}
                    -> Some(3)
              [] OTHER -> Str("new " \o k)])

\* the song list of the songs of the refresh stage
PoolList ==
    ListOfUrls("Playlist", << Str("https://open.spotify.com/track/M1"),
                              Str("https://open.spotify.com/track/M2") >>)

\* the songs get_simple_songs may hand over: a paired link, a member of a
\* playlist, a member that is no longer in its playlist, and a track the
\* catalog does not know
PoolSongs ==
    { Placeholder(Str("https://open.spotify.com/track/M2"),
                  Str("https://youtube.com/watch?v=X"), None),
      Placeholder(Str("https://open.spotify.com/track/M2"), None, Some(PoolList)),
      Placeholder(StaleUrl, None, Some(PoolList)),
      Placeholder(UnknownUrl, None, None) }

\* the call a worker makes for one song: reinit_song(song), with the
\* default playlist_numbering
Refresh(s) == reinit_song(s, CatalogData(s.url), FALSE)

\* the k-th pop of the result iterator with fs left in submission order:
\* fs.pop() takes from the end
PopUnreversed(k) == Len(tasks) - k

\* the future the result iterator pops after k pops: fs.reverse() and then
\* fs.pop() give the futures in submission order
Pop(k) == k + 1

\* the futures still in fs after k pops
Remaining(k) == { Pop(j) : j \in k..(Len(tasks) - 1) }

\* line 69 has returned, line 72-73 have built the executor and submitted
\* one future per song
PoolStart ==
    /\ threads \in 1..MaxThreads
    /\ \E n \in 0..MaxSongs : tasks \in [1..n -> PoolSongs]
    /\ fs = [i \in 1..Len(tasks) |-> "pending"]
    /\ outcome = [i \in 1..Len(tasks) |-> None]
    /\ worker = [w \in 1..threads |-> 0]
    /\ next_item = 1
    /\ yielded = 0
    /\ results = << >>
    /\ raising = ""
    /\ returned = None
    /\ runs = [i \in 1..Len(tasks) |-> << >>]
    /\ overtaken = FALSE
    /\ ppc = "map"

\* an idle worker thread takes the next work item and starts running it
Start(w) ==
    /\ ppc \in {"map", "shutdown"}
    /\ worker[w] = 0
    /\ next_item <= Len(tasks)
    /\ fs[next_item] = "pending"
    /\ fs' = [fs EXCEPT ![next_item] = "running"]
    /\ worker' = [worker EXCEPT ![w] = next_item]
    /\ next_item' = next_item + 1
    /\ UNCHANGED <<threads, tasks, outcome, yielded, results, raising,
                   returned, runs, overtaken, ppc>>
    /\ UNCHANGED not_pool

\* an idle worker thread takes a work item whose future was cancelled and
\* drops it
Skip(w) ==
    /\ ppc \in {"map", "shutdown"}
    /\ worker[w] = 0
    /\ next_item <= Len(tasks)
    /\ fs[next_item] = "cancelled"
    /\ next_item' = next_item + 1
    /\ UNCHANGED <<threads, tasks, fs, outcome, worker, yielded, results,
                   raising, returned, runs, overtaken, ppc>>
    /\ UNCHANGED not_pool

\* a worker thread's reinit_song call ends: the future holds its result or
\* its exception
Finish(w) ==
    /\ ppc \in {"map", "shutdown"}
    /\ worker[w] # 0
    /\ LET i == worker[w] IN
        /\ fs' = [fs EXCEPT ![i] = "finished"]
        /\ outcome' = [outcome EXCEPT ![i] = Some(Refresh(tasks[i]))]
        /\ runs' = [runs EXCEPT ![i] = Append(@, w)]
        /\ overtaken' = (overtaken \/ \E j \in 1..(i - 1) : fs[j] # "finished")
    /\ worker' = [worker EXCEPT ![w] = 0]
    /\ UNCHANGED <<threads, tasks, next_item, yielded, results, raising,
                   returned, ppc>>
    /\ UNCHANGED not_pool

\* the result iterator with exceptions swallowed: a failed future is
\* passed over
YieldSkipFailed ==
    /\ ppc = "map"
    /\ yielded < Len(tasks)
    /\ fs[Pop(yielded)] = "finished"
    /\ results' = IF outcome[Pop(yielded)][1].raised THEN results
                  ELSE Append(results, outcome[Pop(yielded)][1].song)
    /\ yielded' = yielded + 1
    /\ UNCHANGED <<threads, tasks, fs, outcome, worker, next_item, raising,
                   returned, runs, overtaken, ppc>>
    /\ UNCHANGED not_pool

\* the result iterator without the wait of future.result(): a future that
\* is not done yet is passed over
YieldIfDone ==
    /\ ppc = "map"
    /\ yielded < Len(tasks)
    /\ LET i == Pop(yielded) IN
        IF fs[i] = "finished" /\ outcome[i][1].raised
        THEN /\ raising' = outcome[i][1].error
             /\ fs' = [j \in 1..Len(tasks) |->
                        IF j \in Remaining(yielded + 1) /\ fs[j] = "pending"
                        THEN "cancelled" ELSE fs[j]]
             /\ ppc' = "shutdown"
             /\ UNCHANGED <<results, yielded>>
        ELSE /\ results' = IF fs[i] = "finished"
                           THEN Append(results, outcome[i][1].song)
                           ELSE results
             /\ yielded' = yielded + 1
             /\ UNCHANGED <<raising, fs, ppc>>
    /\ UNCHANGED <<threads, tasks, outcome, worker, next_item, returned, runs,
                   overtaken>>
    /\ UNCHANGED not_pool

\* lines 73-74: one round of `for song in executor.map(...)`: the iterator
\* waits for the next future in order; its result is appended to results,
\* or its exception leaves the loop, the iterator's `finally` cancelling
\* the futures still in fs
Yield ==
    /\ ppc = "map"
    /\ yielded < Len(tasks)
    /\ LET i == Pop(yielded) IN
        /\ fs[i] = "finished"
        /\ IF outcome[i][1].raised
           THEN /\ raising' = outcome[i][1].error
                /\ fs' = [j \in 1..Len(tasks) |->
                            IF j \in Remaining(yielded + 1) /\ fs[j] = "pending"
                            THEN "cancelled" ELSE fs[j]]
                /\ ppc' = "shutdown"
                /\ UNCHANGED <<results, yielded>>
           ELSE /\ results' = Append(results, outcome[i][1].song)
                /\ yielded' = yielded + 1
                /\ UNCHANGED <<raising, fs, ppc>>
    /\ UNCHANGED <<threads, tasks, outcome, worker, next_item, returned, runs,
                   overtaken>>
    /\ UNCHANGED not_pool

\* the iterator is exhausted: the `with` block is left normally
Exhausted ==
    /\ ppc = "map"
    /\ yielded = Len(tasks)
    /\ ppc' = "shutdown"
    /\ UNCHANGED <<threads, tasks, fs, outcome, worker, next_item, yielded,
                   results, raising, returned, runs, overtaken>>
    /\ UNCHANGED not_pool

\* executor.shutdown(wait=False): parse_query goes on without joining the
\* worker threads
ExitNoWait ==
    /\ ppc = "shutdown"
    /\ ppc' = IF raising = "" THEN "returned" ELSE "raised"
    /\ returned' = IF raising = "" THEN Some(results) ELSE None
    /\ UNCHANGED <<threads, tasks, fs, outcome, worker, next_item, yielded,
                   results, raising, runs, overtaken>>
    /\ UNCHANGED not_pool

\* lines 72 and 76: the executor's __exit__ is shutdown(wait=True): the
\* worker threads drain the queue and are joined; then parse_query returns
\* results, or the exception goes on to the caller
Exit ==
    /\ ppc = "shutdown"
    /\ next_item > Len(tasks)
    /\ \A w \in 1..threads : worker[w] = 0
    /\ ppc' = IF raising = "" THEN "returned" ELSE "raised"
    /\ returned' = IF raising = "" THEN Some(results) ELSE None
    /\ UNCHANGED <<threads, tasks, fs, outcome, worker, next_item, yielded,
                   results, raising, runs, overtaken>>
    /\ UNCHANGED not_pool

PoolInit == PoolStart /\ SimpleParked /\ ReinitParked /\ ScanParked

PoolNext ==
    \/ \E w \in 1..threads : Start(w)
    \/ \E w \in 1..threads : Skip(w)
    \/ \E w \in 1..threads : Finish(w)
    \/ Yield
    \/ Exhausted
    \/ Exit

SpecPool == PoolInit /\ [][PoolNext]_vars

----------------------------------------------------------------------------
(* gather_known_songs *)

\* the catalog identifiers found on disk
KnownUrls == { Str("https://open.spotify.com/track/A"),
               Str("https://open.spotify.com/track/B") }

\* get_file_metadata(path): None, or the tags, whose url may be missing
FileMetadata == { None } \cup { Some([url |-> u]) : u \in { None } \cup KnownUrls }

\* Song.list_from_search_term(path.stem): the urls of the results, in order
SearchResults ==
    { << >>,
      << Str("https://open.spotify.com/track/A") >>,
      << Str("https://open.spotify.com/track/B"),
         Str("https://open.spotify.com/track/A") >> }

\* a file: what its tags hold and what a search for its name finds
Files == [tags : FileMetadata, found : SearchResults]

\* lines 229-234: get_song_from_file_metadata(file)
get_song_from_file_metadata(file) ==
    IF file.tags = None THEN None
    ELSE Some([url |-> file.tags[1].url])

\* line 261: get_search_results(path.stem)
get_search_results(file) == [i \in 1..Len(file.found) |-> [url |-> file.found[i]]]

\* a dictionary with key set to value
Put(dict, key, value) ==
    [k \in DOMAIN dict \cup {key} |-> IF k = key THEN value ELSE dict[k]]

\* lines 267-271 with the known paths replaced instead of extended
RememberLast(known, url, path) == Put(known, url, <<path>>)

\* lines 267-271: the path joins the list of its url
Remember(known, url, path) ==
    IF url \notin DOMAIN known
    THEN Put(known, url, <<path>>)
    ELSE Put(known, url, Append(known[url], path))

\* lines 256-271: what the loop body makes of known_songs for the path
\* numbered path
Gather(known, file, path) ==
    LET s == get_song_from_file_metadata(file) IN
    IF s = None \/ s[1].url = None THEN
        LET search_results == get_search_results(file) IN
        IF Len(search_results) = 0 THEN known
        ELSE Remember(known, search_results[1].url, path)
    ELSE Remember(known, s[1].url, path)

\* line 254: the glob has listed the files
ScanStart ==
    /\ \E n \in 0..MaxFiles : paths \in [1..n -> Files]
    /\ pi = 1
    /\ known_songs = << >>
    /\ gpc = "loop"

\* lines 255-271: one round of `for path in paths`
GatherPath ==
    /\ gpc = "loop"
    /\ pi <= Len(paths)
    /\ known_songs' = Gather(known_songs, paths[pi], pi)
    /\ pi' = pi + 1
    /\ UNCHANGED <<paths, gpc>>
    /\ UNCHANGED not_scan

\* line 273
ReturnKnown ==
    /\ gpc = "loop"
    /\ pi > Len(paths)
    /\ gpc' = "returned"
    /\ UNCHANGED <<paths, pi, known_songs>>
    /\ UNCHANGED not_scan

ScanInit == ScanStart /\ SimpleParked /\ ReinitParked /\ PoolParked

ScanNext == GatherPath \/ ReturnKnown

SpecScan == ScanInit /\ [][ScanNext]_vars

----------------------------------------------------------------------------
(* Claims about get_simple_songs *)

\* a video-sharing link pattern
HasVideoLink(s) == Contains(s, "youtube.com/watch?v=") \/ Contains(s, "youtu.be/")

\* a catalog track-link pattern
HasTrackLink(s) == Contains(s, "open.spotify.com") /\ Contains(s, "track")

\* the paired-link directive of the specification
IsDirective(request) ==
    HasVideoLink(request) /\ HasTrackLink(request) /\ HasBar(request)

\* C1: a request is handled by the paired-link branch (appending a paired
\* record or raising QueryError) only when it holds a video link pattern, a
\* catalog track-link pattern and the separator; any other request is left
\* to the later rules and never raises QueryError.
C1_PairedOnlyForDirectives ==
    /\ \A k \in 1..Len(taken) : taken[k] = "paired" => IsDirective(query[k])
    /\ spc = "raised" => IsDirective(query[Len(taken)])

\* a well-formed pair: exactly two parts, a video-source marker in the
\* first and a catalog-track marker in the second
WellFormedPair(request) ==
    /\ Len(request) = 2
    /\ Contains(Str(request[1]), "youtube") \/ Contains(Str(request[1]), "youtu.be")
    /\ HasTrackLink(Str(request[2]))

\* C2: when the paired-link branch handles a request, it appends the record
\* (url = second part, download_url = first part) if the request is a
\* well-formed pair, and otherwise raises QueryError with the fixed message
\* and appends nothing.
C2_PairValidated ==
    [][ (spc = "classify" /\ qi <= Len(query) /\ IsPaired(query[qi])) =>
          IF WellFormedPair(query[qi])
          THEN /\ spc' = "classify"
               /\ songs' = Append(songs,
                    from_missing_data(Str(query[qi][2]), Str(query[qi][1]), None))
          ELSE /\ spc' = "raised"
               /\ error' = "Incorrect format used, please use \"YouTubeURL|SpotifyURL\""
               /\ songs' = songs ]_vars

\* the records the second loop appended for the l-th song list
Expanded(l) ==
    SubSeq(songs, logged[l].at + 1,
           IF l < Len(logged) THEN logged[l + 1].at ELSE Len(songs))

\* C5 as stated: on return, each song list has contributed as many records
\* as the count that was logged for it, and each of them refers back to
\* exactly that song list.
C5_BackReferenceIsCurrentList ==
    spc = "returned" =>
        \A l \in 1..Len(lists) :
            /\ Len(Expanded(l)) = logged[l].count
            /\ \A j \in 1..Len(Expanded(l)) :
                   Expanded(l)[j].song_list = Some(lists[l])

\* C5 amended: on return, each song list has contributed as many records as
\* the count that was logged for it, in membership order; each record
\* carries a back-reference, never none: the one its member already
\* carried, and the current song list only when the member carried none.
C5_BackReferenceOwnOrCurrent ==
    spc = "returned" =>
        \A l \in 1..Len(lists) :
            /\ Len(Expanded(l)) = logged[l].count
            /\ logged[l].count = Len(lists[l].songs)
            /\ \A j \in 1..Len(Expanded(l)) :
                   LET member == lists[l].songs[j]
                       record == Expanded(l)[j]
                   IN  /\ record.url = member.url
                       /\ record.song_list # None
                       /\ member.song_list # None
                            => record.song_list = member.song_list
                       /\ member.song_list = None
                            => record.song_list = Some(lists[l])

\* a run that expanded two song lists, with a member that carried its own
\* song list and one that carried none
C5_Witness ==
    /\ spc = "returned"
    /\ Len(lists) >= 2
    /\ \E l \in 1..Len(lists) : \E j, k \in 1..Len(lists[l].songs) :
          /\ lists[l].songs[j].song_list # None
          /\ lists[l].songs[k].song_list = None
          /\ Expanded(l)[j].song_list = Some(NestedList)
          /\ Expanded(l)[k].song_list = Some(lists[l])

----------------------------------------------------------------------------
(* Claims about reinit_song *)

\* reinit_song returned a Song
Refreshed == rpc = "done" /\ ~reinit[1].raised

\* C3: with playlist_numbering, the record at 0-based place i of a song
\* list of N members gets list_position i, track_number i + 1 and
\* tracks_count N, also when its url occurs at several places of the list.
C3_NumberedByPosition ==
    (Refreshed /\ playlist_numbering /\ position >= 0) =>
        /\ reinit[1].song.list_position = Some(position)
        /\ reinit[1].song.track_number = Some(position + 1)
        /\ reinit[1].song.tracks_count = Some(Len(Urls(song.song_list[1])))

\* the merge rule for field k: the fresh value if there is one, else the
\* value the record had
Merged(k) ==
    reinit[1].song[k] = IF new_data[1][k] # None THEN new_data[1][k] ELSE song[k]

\* C7 as stated: every field of the refreshed record follows the merge rule.
C7_EveryFieldMerged == Refreshed => \A k \in Fields : Merged(k)

\* the fields lines 198-212 assign for this call
ContextFields ==
    IF song.song_list = None THEN {}
    ELSE {"song_list", "list_position"}
         \cup (IF playlist_numbering
               THEN {"track_number", "tracks_count", "album_name",
                     "disc_number", "disc_count"}
               ELSE {})
         \cup (IF playlist_numbering /\ song.song_list[1].class = "Playlist"
               THEN {"album_artist", "cover_url"}
               ELSE {})

\* C7 amended: every field follows the merge rule except those the
\* collection-context step assigns afterwards: for a record with a song
\* list, song_list and list_position, with playlist_numbering also
\* track_number, tracks_count, album_name, disc_number and disc_count, and
\* for a Playlist also album_artist and cover_url.  download_url is never
\* among them.
C7_FieldsMergedButContext ==
    Refreshed =>
        /\ \A k \in Fields \ ContextFields : Merged(k)
        /\ "download_url" \notin ContextFields

\* a paired-link record of a playlist refreshed with numbering: the catalog
\* had no download_url and the record kept its own, and had a name, which
\* replaced the record's
C7_Witness ==
    /\ Refreshed
    /\ playlist_numbering
    /\ song.song_list # None
    /\ song.download_url # None
    /\ new_data[1].download_url = None
    /\ reinit[1].song.download_url = song.download_url
    /\ song.name # None
    /\ new_data[1].name # None
    /\ new_data[1].name # song.name
    /\ reinit[1].song.name = new_data[1].name

----------------------------------------------------------------------------
(* Claims about parse_query *)

\* the refresh of this song raises
Fails(s) == Refresh(s).raised

\* the places of the songs whose refresh raises
Failing == { i \in 1..Len(tasks) : Fails(tasks[i]) }

\* the first of them
FirstFailing == CHOOSE i \in Failing : \A j \in Failing : i <= j

\* the refreshed songs, in input order
Expected == [i \in 1..Len(tasks) |-> Refresh(tasks[i]).song]

\* a list as a multiset
BagOf(list) ==
    [x \in { list[i] : i \in 1..Len(list) } |->
        Cardinality({ i \in 1..Len(list) : list[i] = x })]

\* parse_query has handed control back
Over == ppc \in {"returned", "raised"}

\* C4: what the refresh stage produces depends on the input alone, not on
\* the worker count or the interleaving: when no refresh raises it returns
\* the multiset of the refreshed songs, and otherwise it raises the error of
\* the first failing song.
C4_SameRecordsForAnyWorkers ==
    Over =>
        IF Failing = {}
        THEN /\ ppc = "returned"
             /\ BagOf(returned[1]) = BagOf(Expected)
        ELSE /\ ppc = "raised"
             /\ raising = Refresh(tasks[FirstFailing]).error

\* two workers ran the first two songs, a song finished before an earlier
\* one, and the list was returned
C4_Witness ==
    /\ ppc = "returned"
    /\ threads >= 2
    /\ Len(tasks) >= 2
    /\ tasks[1] # tasks[2]
    /\ overtaken
    /\ runs[1] # runs[2]

\* C8: a single failing refresh aborts the batch: the error reaches the
\* caller and no list is returned, whatever the worker count and the place
\* of the failing song.
C8_FailureAbortsBatch ==
    (Over /\ Failing # {}) =>
        /\ ppc = "raised"
        /\ returned = None
        /\ \E i \in Failing : raising = Refresh(tasks[i]).error

\* the batch was aborted by its last song, after the refresh of the songs
\* before it had succeeded and been collected
C8_Witness ==
    /\ ppc = "raised"
    /\ threads >= 2
    /\ Len(tasks) >= 2
    /\ Failing = {Len(tasks)}
    /\ Len(results) = Len(tasks) - 1
    /\ returned = None

\* the futures being run
Running == { i \in 1..Len(tasks) : fs[i] = "running" }

\* C9 as stated: control goes back only when every submitted unit has run
\* to completion, each exactly once, with at most `threads` running at any
\* moment.
C9_EveryUnitRunOnce ==
    /\ Cardinality(Running) <= threads
    /\ Over => \A i \in 1..Len(tasks) : fs[i] = "finished" /\ Len(runs[i]) = 1

\* C9 amended: at most `threads` units run at any moment and no unit is run
\* more than once; control goes back only when no unit is running and none
\* is left in the queue; on a normal return every unit has run exactly
\* once; when parse_query raises, every unit has either run exactly once or
\* was cancelled before it started and never ran.
C9_AwaitedRunAtMostOnce ==
    /\ Cardinality(Running) <= threads
    /\ \A i \in 1..Len(tasks) : Len(runs[i]) <= 1
    /\ Over =>
        /\ Running = {}
        /\ \A w \in 1..threads : worker[w] = 0
        /\ \A i \in 1..Len(tasks) :
              \/ fs[i] = "finished" /\ Len(runs[i]) = 1
              \/ fs[i] = "cancelled" /\ Len(runs[i]) = 0 /\ ppc = "raised"
    /\ ppc = "returned" =>
        \A i \in 1..Len(tasks) : fs[i] = "finished" /\ Len(runs[i]) = 1

\* parse_query raised after the first song failed: a later song that was
\* already running was awaited, one that had not started was cancelled
C9_Witness ==
    /\ ppc = "raised"
    /\ Len(tasks) >= 3
    /\ FirstFailing = 1
    /\ \E i, j \in 2..Len(tasks) :
          /\ fs[i] = "finished" /\ Len(runs[i]) = 1
          /\ fs[j] = "cancelled" /\ Len(runs[j]) = 0

\* C10: on a normal return the list has one entry per input song and the
\* k-th entry is the refresh of the k-th song, whatever the worker count
\* and the order in which the workers finish.
C10_ResultsInInputOrder ==
    ppc = "returned" => returned = Some(Expected)

\* the list was returned after a song had finished before an earlier one
C10_Witness ==
    /\ ppc = "returned"
    /\ Len(tasks) >= 2
    /\ returned[1][1] # returned[1][2]
    /\ overtaken

----------------------------------------------------------------------------
(* Claims about gather_known_songs *)

\* the identifier a file yields: the url of its tags, or else of the first
\* search result, or none
Identifier(file) ==
    IF file.tags # None /\ file.tags[1].url # None THEN file.tags[1].url
    ELSE IF file.found # << >> THEN file.found[1]
    ELSE None

\* C6: in the returned mapping every file that yielded an identifier is
\* listed exactly once, under that identifier and no other, in enumeration
\* order; a file that yielded none is listed nowhere and stops nothing;
\* and no key has an empty list.
C6_KnownSongsIndex ==
    gpc = "returned" =>
        /\ pi = Len(paths) + 1
        /\ DOMAIN known_songs =
              { Identifier(paths[i]) : i \in 1..Len(paths) } \ { None }
        /\ \A id \in DOMAIN known_songs :
              /\ known_songs[id] # << >>
              /\ \A a, b \in 1..Len(known_songs[id]) :
                    a < b => known_songs[id][a] < known_songs[id][b]
              /\ { known_songs[id][a] : a \in 1..Len(known_songs[id]) } =
                    { i \in 1..Len(paths) : Identifier(paths[i]) = id }

\* files that yield A (from the tags), A (from the search) and B, or A, none
\* and A
C6_Witness ==
    /\ gpc = "returned"
    /\ Len(paths) = 3
    /\ paths[1].tags # None /\ paths[1].tags[1].url # None
    /\ paths[2].tags = None
    /\ \/ /\ Identifier(paths[2]) = Identifier(paths[1])
          /\ Identifier(paths[3]) \notin { None, Identifier(paths[1]) }
          /\ known_songs[Identifier(paths[1])] = <<1, 2>>
          /\ known_songs[Identifier(paths[3])] = <<3>>
       \/ /\ Identifier(paths[2]) = None
          /\ Identifier(paths[3]) = Identifier(paths[1])
          /\ known_songs[Identifier(paths[1])] = <<1, 3>>

====
